---- MODULE Spec2Model ----
(***************************************************************************)
(* GraphicBufferMapper::lockAsyncYCbCr (libs/ui/GraphicBufferMapper.cpp).  *)
(*                                                                         *)
(* One call of lockAsyncYCbCr is followed from entry to return.  The       *)
(* backend (Gralloc2 mapper, gralloc1 device behind the gralloc0 adapter,  *)
(* or a native gralloc1 device) is fixed at construction.  Every answer of *)
(* the backend (error code, number of planes, flex layout, descriptor      *)
(* written by the adapter) is an input drawn from a bounded set.           *)
(***************************************************************************)
EXTENDS Integers, Sequences, FiniteSets

VARIABLES
    backend,    \* which backend the constructor selected
    pc,         \* position of the call
    handle,     \* the buffer_handle_t argument
    ycbcr,      \* the caller's android_ycbcr (the out parameter)
    ycbcr0,     \* its content when the call was entered
    error,      \* the local gralloc1_error_t error
    numPlanes,  \* the local numPlanes
    format,     \* flexLayout.format
    planes,     \* the local vector planes
    why,        \* the check that decided the exit ("ok": none failed)
    calls,      \* the backend calls issued so far, in order
    result      \* the status_t returned

vars == <<backend, pc, handle, ycbcr, ycbcr0, error, numPlanes, format, planes,
          why, calls, result>>

-----------------------------------------------------------------------------
(* Bounds of the inputs *)

\* longest plane list a backend answers with
MaxPlanes == 4

\* the buffers a caller passes; each is described by planes that differ from
\* the plain 8-bit layout in one attribute
Handles == {"bits", "hinc", "vinc"}

\* error codes a backend call can report besides GRALLOC1_ERROR_NONE
DeviceErrors == {"BAD_HANDLE", "UNSUPPORTED"}
\* error codes the device's unlock can report
UnlockErrors == {"BAD_HANDLE"}

Plane(c, bpc, used, h, v) ==
    [component |-> c, bits_per_component |-> bpc, bits_used |-> used,
     h_increment |-> h, v_increment |-> v, top_left |-> 0]

\* a plain planar layout, with an alpha plane as a fourth component
ShapesPlain ==
    {Plane("Y", 8, 8, 1, 64), Plane("Cb", 8, 8, 2, 32), Plane("Cr", 8, 8, 2, 32),
     Plane("A", 8, 8, 1, 32)}

\* the planes a backend describes buffer h with
Shapes(h) ==
    IF h = "bits" THEN
        {Plane(c, b[1], b[2], 1, 32) :
            c \in {"Y", "Cb", "Cr"}, b \in {<<8, 8>>, <<16, 8>>, <<8, 7>>}}
          \cup {Plane("A", 16, 8, 1, 32)}
    ELSE IF h = "hinc" THEN
        {Plane("Y", 8, 8, x, 32) : x \in {1, 2}}
          \cup {Plane(c, 8, 8, x, 32) : c \in {"Cb", "Cr"}, x \in {1, 2, 3}}
          \cup {Plane("A", 8, 8, 1, 32)}
    ELSE
        {Plane("Y", 8, 8, 1, x) : x \in {0, 64}}
          \cup {Plane(c, 8, 8, 1, x) : c \in {"Cb", "Cr"}, x \in {0, 32, 64}}

\* the backend maps the i-th plane at address i
Mapped(f) == [i \in DOMAIN f |-> [f[i] EXCEPT !.top_left = i]]

\* the layouts a successful lock of buffer h can describe with n planes
Layouts(h, n) ==
    [format : {"YCbCr"},
     planes : {Mapped(f) : f \in [1..n -> Shapes(h)] \cup [1..n -> ShapesPlain]}]
      \cup [format : {"RGB"}, planes : {Mapped(f) : f \in [1..n -> ShapesPlain]}]

\* what the gralloc0 module behind the adapter may leave in the descriptor
AdapterWrites ==
    {[y |-> 1, cb |-> 2, cr |-> 3, ystride |-> 64, cstride |-> 32, chroma_step |-> 2],
     [y |-> 1, cb |-> 0, cr |-> 0, ystride |-> 64, cstride |-> 0, chroma_step |-> 0]}

-----------------------------------------------------------------------------
(* Program constants *)

GRALLOC1_ERROR_NONE == "NONE"
GRALLOC1_ERROR_UNSUPPORTED == "UNSUPPORTED"
FLEX_FORMAT_YCbCr == "YCbCr"
FLEX_FORMAT_INVALID == "INVALID"
FLEX_COMPONENT_Y == "Y"
FLEX_COMPONENT_Cb == "Cb"
FLEX_COMPONENT_Cr == "Cr"
\* numPlanes < 3 is refused before lockFlex
MinYCbCrPlanes == 3

\* android_flex_plane_t{} / android_ycbcr as value-initialised
ZeroPlane == Plane("none", 0, 0, 0, 0)
ZeroYCbCr == [y |-> 0, cb |-> 0, cr |-> 0, ystride |-> 0, cstride |-> 0, chroma_step |-> 0]

\* static_cast<size_t>(int32_t)
SizeT(x) == IF x >= 0 THEN x ELSE x + 2^64

-----------------------------------------------------------------------------
(* isValidYCbCrPlane *)

\* variant: the bits_used test is left out
isValidYCbCrPlane_NoBitsUsed(plane) ==
    IF plane.bits_per_component # 8 THEN FALSE
    ELSE (plane.h_increment = 1
          \/ (plane.component # FLEX_COMPONENT_Y /\ plane.h_increment = 2))
         /\ plane.v_increment > 0

\* variant: h_increment 2 is accepted for every component
isValidYCbCrPlane_AnyH2(plane) ==
    IF plane.bits_per_component # 8 THEN FALSE
    ELSE IF plane.bits_used # 8 THEN FALSE
    ELSE (plane.h_increment = 1 \/ plane.h_increment = 2) /\ plane.v_increment > 0

isValidYCbCrPlane(plane) ==
    IF plane.bits_per_component # 8 THEN FALSE
    ELSE IF plane.bits_used # 8 THEN FALSE
    ELSE LET hasValidIncrement0 ==
                 plane.h_increment = 1
                 \/ (plane.component # FLEX_COMPONENT_Y /\ plane.h_increment = 2)
             hasValidIncrement == hasValidIncrement0 /\ plane.v_increment > 0
         IN  hasValidIncrement

cend(ps) == Len(ps) + 1

\* variant: an iterator that is already set is not set again
RECURSIVE FindPlanes_FirstSeen(_, _, _, _, _)
FindPlanes_FirstSeen(ps, i, y, cb, cr) ==
    IF i > Len(ps) THEN <<y, cb, cr>>
    ELSE IF ps[i].component = FLEX_COMPONENT_Y
         THEN FindPlanes_FirstSeen(ps, i + 1, IF y = cend(ps) THEN i ELSE y, cb, cr)
    ELSE IF ps[i].component = FLEX_COMPONENT_Cb
         THEN FindPlanes_FirstSeen(ps, i + 1, y, IF cb = cend(ps) THEN i ELSE cb, cr)
    ELSE IF ps[i].component = FLEX_COMPONENT_Cr
         THEN FindPlanes_FirstSeen(ps, i + 1, y, cb, IF cr = cend(ps) THEN i ELSE cr)
    ELSE FindPlanes_FirstSeen(ps, i + 1, y, cb, cr)

(* The "Find planes" loop: iterators are indices, cend is Len(ps) + 1.      *)
(* FindPlanes(ps, i, y, cb, cr) is the value of <<yPlane, cbPlane, crPlane>> *)
(* when the loop that stands at planeIter = i has finished.                 *)
RECURSIVE FindPlanes(_, _, _, _, _)
FindPlanes(ps, i, y, cb, cr) ==
    IF i > Len(ps) THEN <<y, cb, cr>>
    ELSE IF ps[i].component = FLEX_COMPONENT_Y THEN FindPlanes(ps, i + 1, i, cb, cr)
    ELSE IF ps[i].component = FLEX_COMPONENT_Cb THEN FindPlanes(ps, i + 1, y, i, cr)
    ELSE IF ps[i].component = FLEX_COMPONENT_Cr THEN FindPlanes(ps, i + 1, y, cb, i)
    ELSE FindPlanes(ps, i + 1, y, cb, cr)

\* variant: crPlane starts at cbegin instead of cend
Found_CrBegin(ps) == FindPlanes(ps, 1, cend(ps), cend(ps), 1)

\* <<yPlane, cbPlane, crPlane>> after the loop, all three starting at cend
Found(ps) == FindPlanes(ps, 1, cend(ps), cend(ps), cend(ps))

\* variant: the comparison of the chroma h_increment is left out
Validate_NoStride(e, fmt, ps) ==
    LET yPlane  == Found(ps)[1]
        cbPlane == Found(ps)[2]
        crPlane == Found(ps)[3]
    IN  IF e # GRALLOC1_ERROR_NONE THEN "lock"
        ELSE IF fmt # FLEX_FORMAT_YCbCr THEN "format"
        ELSE IF yPlane = cend(ps) THEN "noY"
        ELSE IF cbPlane = cend(ps) THEN "noCb"
        ELSE IF crPlane = cend(ps) THEN "noCr"
        ELSE IF ~isValidYCbCrPlane(ps[yPlane]) THEN "badY"
        ELSE IF ~isValidYCbCrPlane(ps[cbPlane]) THEN "badCb"
        ELSE IF ~isValidYCbCrPlane(ps[crPlane]) THEN "badCr"
        ELSE IF ps[cbPlane].v_increment # ps[crPlane].v_increment THEN "vstep"
        ELSE "ok"

(* The checks between the backend's lock and the packing, in order; the    *)
(* value names the check that fails, "ok" if none does.                    *)
Validate(e, fmt, ps) ==
    LET yPlane  == Found(ps)[1]
        cbPlane == Found(ps)[2]
        crPlane == Found(ps)[3]
    IN  IF e # GRALLOC1_ERROR_NONE THEN "lock"
        ELSE IF fmt # FLEX_FORMAT_YCbCr THEN "format"
        ELSE IF yPlane = cend(ps) THEN "noY"
        ELSE IF cbPlane = cend(ps) THEN "noCb"
        ELSE IF crPlane = cend(ps) THEN "noCr"
        ELSE IF ~isValidYCbCrPlane(ps[yPlane]) THEN "badY"
        ELSE IF ~isValidYCbCrPlane(ps[cbPlane]) THEN "badCb"
        ELSE IF ~isValidYCbCrPlane(ps[crPlane]) THEN "badCr"
        ELSE IF ps[cbPlane].v_increment # ps[crPlane].v_increment THEN "vstep"
        ELSE IF ps[cbPlane].h_increment # ps[crPlane].h_increment THEN "hstride"
        ELSE "ok"

\* variant: the failure exit of the chroma h_increment comparison has no unlock
NeedsUnlock_NotOnStride(w) == w \notin {"ok", "lock", "hstride"}

\* variant: the exit of a failed lock unlocks too
NeedsUnlock_AfterFailedLock(w) == w # "ok"

(* whether the exit taken after check w calls unlock(handle) before it returns *)
NeedsUnlock(w) == w \notin {"ok", "lock"}

\* variant: a failed lock is reported as UNSUPPORTED
ReturnOf_Masked(e, w) == IF w = "ok" THEN e ELSE GRALLOC1_ERROR_UNSUPPORTED

(* the status returned by the exit taken after check w *)
ReturnOf(e, w) ==
    IF w = "lock" THEN e
    ELSE IF w = "ok" THEN e
    ELSE GRALLOC1_ERROR_UNSUPPORTED

\* variant: cb and cr are taken from each other's plane
Pack_SwapChroma(ps) ==
    LET yPlane  == ps[Found(ps)[1]]
        cbPlane == ps[Found(ps)[2]]
        crPlane == ps[Found(ps)[3]]
    IN  [y |-> yPlane.top_left, cb |-> crPlane.top_left, cr |-> cbPlane.top_left,
         ystride |-> SizeT(yPlane.v_increment),
         cstride |-> SizeT(cbPlane.v_increment),
         chroma_step |-> SizeT(cbPlane.h_increment)]

(* "Pack plane data into android_ycbcr struct" *)
Pack(ps) ==
    LET yPlane  == ps[Found(ps)[1]]
        cbPlane == ps[Found(ps)[2]]
        crPlane == ps[Found(ps)[3]]
    IN  [y |-> yPlane.top_left, cb |-> cbPlane.top_left, cr |-> crPlane.top_left,
         ystride |-> SizeT(yPlane.v_increment),
         cstride |-> SizeT(cbPlane.v_increment),
         chroma_step |-> SizeT(cbPlane.h_increment)]

\* variant: the descriptor is packed as soon as the three planes are found
Descriptor_PackFirst(w, ps, old) ==
    IF w \in {"ok", "badY", "badCb", "badCr", "vstep", "hstride"} THEN Pack(ps) ELSE old

(* *ycbcr when the call returns after check w: written only past all checks *)
Descriptor(w, ps, old) == IF w = "ok" THEN Pack(ps) ELSE old

Issued(op, h, e) == [op |-> op, handle |-> h, error |-> e]

-----------------------------------------------------------------------------
Init ==
    /\ backend \in {"mapper", "adapter", "device"}
    /\ pc = "idle"
    /\ handle = "none"
    /\ ycbcr = ZeroYCbCr
    /\ ycbcr0 = ZeroYCbCr
    /\ error = GRALLOC1_ERROR_NONE
    /\ numPlanes = 0
    /\ format = FLEX_FORMAT_INVALID
    /\ planes = <<>>
    /\ why = "unchecked"
    /\ calls = <<>>
    /\ result = "pending"

(* entry of lockAsyncYCbCr(handle, usage, bounds, ycbcr, fenceFd) *)
Call ==
    /\ pc = "idle"
    /\ \E h \in Handles : handle' = h
    /\ ycbcr0' = ycbcr
    /\ pc' = "entry"
    /\ UNCHANGED <<backend, ycbcr, error, numPlanes, format, planes, why, calls, result>>

(* mMapper->valid(): mMapper->lock(handle, usage, usage, accessRect, fenceFd, &layout) *)
MapperLock ==
    /\ pc = "entry" /\ backend = "mapper"
    /\ \/ \E n \in 0..MaxPlanes : \E layout \in Layouts(handle, n) :
            /\ error' = GRALLOC1_ERROR_NONE
            /\ planes' = layout.planes
            /\ format' = layout.format
       \/ \E e \in DeviceErrors :
            /\ error' = e
            /\ UNCHANGED <<planes, format>>
    /\ calls' = Append(calls, Issued("lock", handle, error'))
    /\ pc' = "locked"
    /\ UNCHANGED <<backend, handle, ycbcr, ycbcr0, numPlanes, why, result>>

(* GRALLOC1_CAPABILITY_ON_ADAPTER: mDevice->lockYCbCr(..., ycbcr, fence); return error *)
AdapterLockYCbCr ==
    /\ pc = "entry" /\ backend = "adapter"
    /\ \E e \in DeviceErrors \cup {GRALLOC1_ERROR_NONE} :
         /\ error' = e
         /\ result' = e
    /\ \E d \in AdapterWrites \cup {ycbcr} : ycbcr' = d
    /\ calls' = Append(calls, Issued("lockYCbCr", handle, error'))
    /\ pc' = "done"
    /\ UNCHANGED <<backend, handle, ycbcr0, numPlanes, format, planes, why>>

(* mDevice->getNumFlexPlanes(handle, &numPlanes) and the two early returns *)
GetNumFlexPlanes ==
    /\ pc = "entry" /\ backend = "device"
    /\ \/ \E e \in DeviceErrors :
            /\ error' = e
            /\ result' = e
            /\ pc' = "done"
            /\ UNCHANGED <<numPlanes, planes>>
       \/ \E n \in 0..MaxPlanes :
            /\ error' = GRALLOC1_ERROR_NONE
            /\ numPlanes' = n
            /\ IF n < MinYCbCrPlanes
               THEN /\ result' = GRALLOC1_ERROR_UNSUPPORTED
                    /\ pc' = "done"
                    /\ UNCHANGED planes
               ELSE /\ planes' = [i \in 1..n |-> ZeroPlane]
                    /\ pc' = "lockFlex"
                    /\ UNCHANGED result
    /\ calls' = Append(calls, Issued("getNumFlexPlanes", handle, error'))
    /\ UNCHANGED <<backend, handle, ycbcr, ycbcr0, format, why>>

(* mDevice->lockFlex(handle, usage, usage, &accessRegion, &flexLayout, fence) *)
LockFlex ==
    /\ pc = "lockFlex"
    /\ \/ \E layout \in Layouts(handle, numPlanes) :
            /\ error' = GRALLOC1_ERROR_NONE
            /\ planes' = layout.planes
            /\ format' = layout.format
       \/ \E e \in DeviceErrors :
            /\ error' = e
            /\ UNCHANGED <<planes, format>>
    /\ calls' = Append(calls, Issued("lockFlex", handle, error'))
    /\ pc' = "locked"
    /\ UNCHANGED <<backend, handle, ycbcr, ycbcr0, numPlanes, why, result>>

(* from "if (error != GRALLOC1_ERROR_NONE)" to the return, or to the point  *)
(* where a failure exit is about to call unlock(handle)                     *)
Resolve ==
    /\ pc = "locked"
    /\ why' = Validate(error, format, planes)
    /\ ycbcr' = Descriptor(why', planes, ycbcr)
    /\ IF NeedsUnlock(why')
       THEN /\ pc' = "unlock"
            /\ UNCHANGED result
       ELSE /\ pc' = "done"
            /\ result' = ReturnOf(error, why')
    /\ UNCHANGED <<backend, handle, ycbcr0, error, numPlanes, format, planes, calls>>

(* unlockAsync(handle, &fenceFd): the Gralloc2 mapper's unlock reports no   *)
(* error, the gralloc1 device's unlock reports e                            *)
unlockAsync(e) == IF backend = "mapper" THEN GRALLOC1_ERROR_NONE ELSE e

(* a failure exit: unlock(handle), its status dropped, then the return *)
UnlockAndReturn ==
    /\ pc = "unlock"
    /\ \E e \in UnlockErrors \cup {GRALLOC1_ERROR_NONE} :
         calls' = Append(calls, Issued("unlock", handle, unlockAsync(e)))
    /\ result' = ReturnOf(error, why)
    /\ pc' = "done"
    /\ UNCHANGED <<backend, handle, ycbcr, ycbcr0, error, numPlanes, format, planes, why>>

Next ==
    \/ Call
    \/ MapperLock
    \/ AdapterLockYCbCr
    \/ GetNumFlexPlanes
    \/ LockFlex
    \/ Resolve
    \/ UnlockAndReturn

Spec == Init /\ [][Next]_vars

-----------------------------------------------------------------------------
(* Vocabulary of the properties.  It reads the plane list directly and     *)
(* uses none of the operators above.                                       *)

YCC == {"Y", "Cb", "Cr"}

Returned == pc = "done"

\* the calls of the backend's lock-for-flexible-access operation
LockCalls == {k \in DOMAIN calls : calls[k].op \in {"lock", "lockFlex"}}

\* the flex path was taken and the backend's lock reported no error
FlexLockOK == \E k \in LockCalls : calls[k].error = "NONE"

Unlocks == {k \in DOMAIN calls : calls[k].op = "unlock"}

\* exactly one unlock, of the handle of the call, issued right after its lock
\* and as the last backend call before the return
OneUnlockAfterLock ==
    /\ Cardinality(Unlocks) = 1
    /\ \A k \in Unlocks :
         /\ calls[k].handle = handle
         /\ k = Len(calls)
         /\ k - 1 \in LockCalls
         /\ calls[k - 1].handle = handle

\* the position of the last plane of component c, 0 if there is none
LastOf(c) ==
    LET S == {i \in DOMAIN planes : planes[i].component = c}
    IN  IF S = {} THEN 0 ELSE CHOOSE i \in S : \A j \in S : j <= i

Has(c) == LastOf(c) # 0

Sel(c) == planes[LastOf(c)]

AllPresent == \A c \in YCC : Has(c)

Usable8Bit(p) ==
    /\ p.bits_per_component = 8
    /\ p.bits_used = 8
    /\ p.v_increment > 0
    /\ \/ p.h_increment = 1
       \/ p.component \in {"Cb", "Cr"} /\ p.h_increment = 2

ChromaAgrees ==
    /\ Sel("Cb").v_increment = Sel("Cr").v_increment
    /\ Sel("Cb").h_increment = Sel("Cr").h_increment

\* the layout passes every validation step
LayoutValid ==
    /\ format = "YCbCr"
    /\ AllPresent
    /\ \A c \in YCC : Usable8Bit(Sel(c))
    /\ ChromaAgrees

ExpectedDescriptor ==
    [y |-> Sel("Y").top_left, cb |-> Sel("Cb").top_left, cr |-> Sel("Cr").top_left,
     ystride |-> Sel("Y").v_increment, cstride |-> Sel("Cb").v_increment,
     chroma_step |-> Sel("Cb").h_increment]

\* Y(8,8,h=1,v=64) at 1, Cb(8,8,h=2,v=32) at 2, Cr(8,8,h=2,v=32) at 3
ScenarioPlanes ==
    <<[component |-> "Y", bits_per_component |-> 8, bits_used |-> 8,
       h_increment |-> 1, v_increment |-> 64, top_left |-> 1],
      [component |-> "Cb", bits_per_component |-> 8, bits_used |-> 8,
       h_increment |-> 2, v_increment |-> 32, top_left |-> 2],
      [component |-> "Cr", bits_per_component |-> 8, bits_used |-> 8,
       h_increment |-> 2, v_increment |-> 32, top_left |-> 3]>>

\* the planes list cut down to the last plane of each of Y, Cb, Cr, in order
RECURSIVE LastSeenFrom(_)
LastSeenFrom(i) ==
    IF i > Len(planes) THEN <<>>
    ELSE IF \E c \in YCC : LastOf(c) = i
         THEN <<planes[i]>> \o LastSeenFrom(i + 1)
         ELSE LastSeenFrom(i + 1)

-----------------------------------------------------------------------------
(* C1: on the flex path, when the backend's lock reported no error and the *)
(* layout fails validation (format tag, missing plane, invalid plane,      *)
(* chroma mismatch), the call returns only after exactly one unlock of the *)
(* same handle, issued after the lock.                                     *)
C1_UnlockBeforeFailureReturn ==
    (Returned /\ FlexLockOK /\ ~LayoutValid) => OneUnlockAfterLock

C1_Witness ==
    /\ Returned /\ FlexLockOK /\ backend = "device"
    /\ why = "hstride"
    /\ result = "UNSUPPORTED"
    /\ OneUnlockAfterLock

(* C2: a layout that passes every validation step gives success and the   *)
(* descriptor y, cb, cr = the start addresses of the Y, Cb, Cr planes,     *)
(* ystride = Y's vertical increment, cstride = Cb's vertical increment,    *)
(* chroma_step = Cb's horizontal increment.                                *)
C2_DescriptorOnSuccess ==
    (Returned /\ FlexLockOK /\ LayoutValid) =>
        /\ result = "NONE"
        /\ ycbcr = ExpectedDescriptor

C2_Witness ==
    /\ Returned /\ FlexLockOK
    /\ format = "YCbCr" /\ planes = ScenarioPlanes
    /\ result = "NONE"
    /\ ycbcr = [y |-> 1, cb |-> 2, cr |-> 3, ystride |-> 64, cstride |-> 32,
                chroma_step |-> 2]

(* C3: a YCbCr layout from a successful lock that has no Y plane, no Cb    *)
(* plane or no Cr plane gives UNSUPPORTED and leaves the descriptor alone. *)
C3_MissingComponentUnsupported ==
    (Returned /\ FlexLockOK /\ format = "YCbCr" /\ ~AllPresent) =>
        /\ result = "UNSUPPORTED"
        /\ ycbcr = ycbcr0

C3_Witness ==
    /\ Returned /\ FlexLockOK /\ format = "YCbCr"
    /\ Len(planes) >= 3
    /\ Has("Y") /\ Has("Cb") /\ ~Has("Cr")
    /\ result = "UNSUPPORTED" /\ ycbcr = ycbcr0

(* C4 as stated: a layout that contains any plane whose bits-per-component *)
(* or bits-used is not 8 never gives success.                              *)
C4_AnyPlaneNot8Bit ==
    (Returned /\ FlexLockOK
       /\ \E i \in DOMAIN planes :
            planes[i].bits_per_component # 8 \/ planes[i].bits_used # 8)
      => result # "NONE"

(* C4, amended: when the last plane of Y, of Cb or of Cr has               *)
(* bits-per-component or bits-used different from 8, the call does not     *)
(* give success.                                                           *)
C4_SelectedPlaneNot8Bit ==
    (Returned /\ FlexLockOK
       /\ \E c \in YCC :
            Has(c) /\ (Sel(c).bits_per_component # 8 \/ Sel(c).bits_used # 8))
      => result # "NONE"

C4_Witness ==
    /\ Returned /\ FlexLockOK /\ format = "YCbCr" /\ AllPresent
    /\ Usable8Bit(Sel("Y")) /\ Usable8Bit(Sel("Cr"))
    /\ Sel("Cb").bits_per_component = 8 /\ Sel("Cb").bits_used = 7
    /\ result = "UNSUPPORTED"

(* C5: the call gives UNSUPPORTED when the luma plane has a horizontal     *)
(* increment other than 1, a chroma plane one outside {1, 2}, or one of    *)
(* the Y, Cb, Cr planes a vertical increment that is not positive; success *)
(* with a horizontal increment of 2 occurs for chroma planes only.         *)
C5_IncrementsChecked ==
    (Returned /\ FlexLockOK) =>
        /\ ( \/ Has("Y") /\ Sel("Y").h_increment # 1
             \/ \E c \in {"Cb", "Cr"} : Has(c) /\ Sel(c).h_increment \notin {1, 2}
             \/ \E c \in YCC : Has(c) /\ ~(Sel(c).v_increment > 0) )
           => result = "UNSUPPORTED"
        /\ result = "NONE" => Sel("Y").h_increment = 1

C5_Witness ==
    /\ Returned /\ FlexLockOK /\ format = "YCbCr" /\ AllPresent
    /\ Sel("Y").h_increment = 2 /\ Sel("Y").v_increment > 0
    /\ Usable8Bit(Sel("Cb")) /\ Sel("Cb").h_increment = 2
    /\ Usable8Bit(Sel("Cr")) /\ Sel("Cr").h_increment = 2
    /\ result = "UNSUPPORTED"

(* C6: success on the flex path implies that Cb and Cr have the same       *)
(* vertical and the same horizontal increment; when they differ in either  *)
(* the call gives UNSUPPORTED.                                             *)
C6_ChromaIncrementsAgree ==
    (Returned /\ FlexLockOK) =>
        /\ result = "NONE" => ChromaAgrees
        /\ (AllPresent /\ ~ChromaAgrees) => result = "UNSUPPORTED"

C6_Witness ==
    /\ Returned /\ FlexLockOK /\ format = "YCbCr" /\ AllPresent
    /\ \A c \in YCC : Usable8Bit(Sel(c))
    /\ Sel("Cb").h_increment = 1 /\ Sel("Cr").h_increment = 2
    /\ Sel("Cb").v_increment = Sel("Cr").v_increment
    /\ result = "UNSUPPORTED"

(* C7 as stated: every return that is not success leaves the caller's      *)
(* descriptor as it was before the call.                                   *)
C7_FailureLeavesDescriptor ==
    (Returned /\ result # "NONE") => ycbcr = ycbcr0

(* C7, amended: every return that is not success on a path where           *)
(* lockAsyncYCbCr fills the descriptor itself (Gralloc2 mapper, gralloc1   *)
(* device without the adapter capability) leaves the descriptor as it was; *)
(* so does the call while a failure exit is about to unlock.               *)
C7_FlexFailureLeavesDescriptor ==
    /\ (Returned /\ result # "NONE" /\ backend # "adapter") => ycbcr = ycbcr0
    /\ pc = "unlock" => ycbcr = ycbcr0

C7_Witness ==
    /\ Returned /\ FlexLockOK
    /\ format # "YCbCr" /\ planes = ScenarioPlanes
    /\ result = "UNSUPPORTED"
    /\ ycbcr = ycbcr0

(* C8 as stated: the error of every backend call of the call, the cleanup  *)
(* unlock included, is the result of lockAsyncYCbCr.                       *)
C8_EveryErrorReturned ==
    Returned =>
        \A k \in DOMAIN calls : calls[k].error # "NONE" => result = calls[k].error

(* C8, amended: the error of getNumFlexPlanes, of the lock call and of the *)
(* adapter's lockYCbCr is returned unchanged and no backend call follows   *)
(* it; no backend operation is issued twice; the error of the cleanup      *)
(* unlock is dropped and the result is UNSUPPORTED; every other result     *)
(* that is not success is UNSUPPORTED.                                     *)
C8_ErrorsPassedExceptUnlock ==
    Returned =>
        /\ \A k \in DOMAIN calls :
             (calls[k].op # "unlock" /\ calls[k].error # "NONE")
               => (result = calls[k].error /\ k = Len(calls))
        /\ \A j, k \in DOMAIN calls : j # k => calls[j].op # calls[k].op
        /\ Unlocks # {} => result = "UNSUPPORTED"
        /\ result \notin {"NONE", "UNSUPPORTED"}
             => \E k \in DOMAIN calls : calls[k].op # "unlock" /\ calls[k].error = result

C8_Witness ==
    /\ Returned /\ FlexLockOK
    /\ \E k \in Unlocks : calls[k].error = "BAD_HANDLE"
    /\ result = "UNSUPPORTED"

(* C9 as stated: a call that invoked the backend's lock and returns a      *)
(* status other than success has issued exactly one unlock, also when the  *)
(* lock itself reported the error.                                         *)
C9_UnlockPerAttemptedLock ==
    (Returned /\ LockCalls # {} /\ result # "NONE") => Cardinality(Unlocks) = 1

(* C9, amended: a call that invoked the backend's lock and returns a       *)
(* status other than success has issued exactly one unlock of the handle   *)
(* when the lock reported no error, and no unlock when the lock itself     *)
(* reported the error.                                                     *)
C9_UnlockPerSuccessfulLock ==
    (Returned /\ LockCalls # {} /\ result # "NONE") =>
        IF FlexLockOK THEN OneUnlockAfterLock ELSE Unlocks = {}

C9_Witness ==
    /\ Returned /\ LockCalls # {} /\ ~FlexLockOK
    /\ result = "BAD_HANDLE"
    /\ Unlocks = {}

(* C10: the result and the descriptor are those of the list cut down to    *)
(* the last plane of each of Y, Cb, Cr: earlier planes of the same         *)
(* component and planes of other components change neither.                *)
C10_LastSeenWins ==
    (Returned /\ FlexLockOK) =>
        LET last == LastSeenFrom(1)
            w == Validate("NONE", format, last)
        IN  /\ why = w
            /\ result = ReturnOf("NONE", w)
            /\ ycbcr = Descriptor(w, last, ycbcr0)

C10_Witness ==
    /\ Returned /\ FlexLockOK
    /\ Len(planes) = 4
    /\ planes[1].component = "Cb" /\ ~Usable8Bit(planes[1])
    /\ LastOf("Cb") > 1
    /\ result = "NONE"
    /\ ycbcr.cb = Sel("Cb").top_left

====
